---------------------------- MODULE Spec2Model ----------------------------
(***************************************************************************)
(* ruuvi_gateway_exporter: the advertisement scanner (rw_message.rs), the  *)
(* measurement store (measurements.rs, and the older copy kept in main.rs) *)
(* and the two HTTP handlers of main.rs that share the store behind one    *)
(* mutex.                                                                  *)
(*                                                                         *)
(* The tree defines Measurements::update_tag twice: main.rs:41-65 and      *)
(* measurements.rs:31-75.  The handlers of main.rs are modelled over       *)
(* either definition; the variable `module` records which one a run uses.  *)
(***************************************************************************)
EXTENDS Integers, Sequences, FiniteSets, TLC

\* ------------------------------------------------------------------ bounds
\* Longest buffer handed to the bare scanner (ScanSpec).
MaxLen == 4
\* Most calls of AdMessageIter::next recorded for one buffer (ScanSpec).
MaxCalls == 3

\* Byte values the bare scanner is run on: length bytes 0..3 and 0xFF.
ScanBytes == {0, 1, 2, 3, 255}

RECURSIVE SeqsUpTo(_, _)
SeqsUpTo(S, n) ==
    IF n = 0 THEN {<<>>}
    ELSE LET shorter == SeqsUpTo(S, n - 1)
         IN  shorter \cup {Append(s, b) : s \in {t \in shorter : Len(t) = n - 1}, b \in S}

\* --------------------------------------------------------------- scanner
\* Option<Result<AdMessage, AdMessageParseError>>, plus the panic the call
\* can end in.  kind: "None" | "Err" | "Ok" | "Panic".
Item(kind, ad_type, payload) == [kind |-> kind, ad_type |-> ad_type, payload |-> payload]
NoneItem == Item("None", 0, <<>>)
ErrItem == Item("Err", 0, <<>>)
PanicItem == Item("Panic", 0, <<>>)
OkItem(ad_type, payload) == Item("Ok", ad_type, payload)

\* (len - 1) as usize, len: u8.  A build with overflow checks panics at the
\* subtraction when len = 0; a build without them wraps to 255, and
\* split_at(255) panics unless 255 bytes follow the type byte.  Buffers here
\* are far shorter than that, so both builds panic.
WrappingSub1(len) == (len + 255) % 256

\* AdMessageIter::next splitting after len bytes instead of len - 1, so a
\* payload takes the length byte of the next structure with it.
AdMessageIter_next_long(buf) ==
    IF buf = <<>> THEN [item |-> NoneItem, rest |-> <<>>]
    ELSE IF Len(buf) >= 2 THEN
        LET len == buf[1]
            ad_type == buf[2]
            tail == SubSeq(buf, 2, Len(buf))
        IN  IF Len(tail) < len
            THEN [item |-> ErrItem, rest |-> <<>>]
            ELSE LET mid == IF len < Len(tail) THEN len ELSE len - 1
                     after_type == SubSeq(tail, 2, Len(tail))
                 IN  IF len = 0
                     THEN [item |-> PanicItem, rest |-> buf]
                     ELSE [item |-> OkItem(ad_type, SubSeq(after_type, 1, mid)),
                           rest |-> SubSeq(after_type, mid + 1, Len(after_type))]
    ELSE [item |-> ErrItem, rest |-> buf]

\* AdMessageIter::next with the truncation arm resuming after the length
\* byte instead of emptying the slice.
AdMessageIter_next_resync(buf) ==
    IF buf = <<>> THEN [item |-> NoneItem, rest |-> <<>>]
    ELSE IF Len(buf) >= 2 THEN
        LET len == buf[1]
            ad_type == buf[2]
            tail == SubSeq(buf, 2, Len(buf))
        IN  IF Len(tail) < len
            THEN [item |-> ErrItem, rest |-> tail]
            ELSE LET mid == WrappingSub1(len)
                     after_type == SubSeq(tail, 2, Len(tail))
                 IN  IF len = 0 \/ mid > Len(after_type)
                     THEN [item |-> PanicItem, rest |-> buf]
                     ELSE [item |-> OkItem(ad_type, SubSeq(after_type, 1, mid)),
                           rest |-> SubSeq(after_type, mid + 1, Len(after_type))]
    ELSE [item |-> ErrItem, rest |-> buf]

\* AdMessageIter::next: the item returned and the slice left in self.0.
AdMessageIter_next(buf) ==
    IF buf = <<>> THEN [item |-> NoneItem, rest |-> <<>>]
    ELSE IF Len(buf) >= 2 THEN
        LET len == buf[1]
            ad_type == buf[2]
            tail == SubSeq(buf, 2, Len(buf))
        IN  IF Len(tail) < len
            THEN [item |-> ErrItem, rest |-> <<>>]
            ELSE LET mid == WrappingSub1(len)
                     after_type == SubSeq(tail, 2, Len(tail))
                 IN  IF len = 0 \/ mid > Len(after_type)
                     THEN [item |-> PanicItem, rest |-> buf]
                     ELSE [item |-> OkItem(ad_type, SubSeq(after_type, 1, mid)),
                           rest |-> SubSeq(after_type, mid + 1, Len(after_type))]
    ELSE [item |-> ErrItem, rest |-> buf]

\* ------------------------------------------------------------ input sets
\* Handler slots (connections being served), sensor names, the envelopes a
\* gateway posts and the capture stamps a sensor message can carry.
Procs == {1, 2}
Names == {"A", "B"}
Envelopes == {1, 2}
Stamps == {1, 2}

\* Most requests started in one run, most sensor messages in one envelope.
MaxRequests == 2
MaxTags == 2
\* Bytes of a sensor record after the manufacturer id: the format byte and
\* RecordLen - 1 data bytes (the real layouts are 24 to 40 bytes long).
RecordLen == 2

GwTimestamp(e) == 100 + e
GwNonce(e) == 1000 + e
GwMac(e) == IF e = 1 THEN "GW1" ELSE "GW2"
\* A sensor message with stamp s: captured at s, received at Rssi(s); its
\* readings carry 2s or 2s+1, so each component names the message it is from.
TagTimestamp(s) == s
Rssi(s) == 0 - 50 - s

RECURSIVE Repeat(_, _)
Repeat(b, n) == IF n <= 0 THEN <<>> ELSE <<b>> \o Repeat(b, n - 1)

\* Advertisement structures: length byte, type byte, payload.
Flags == <<2, 1, 6>>
Manufacturer(id_lo, id_hi, format, d) ==
    <<3 + RecordLen, 255, id_lo, id_hi, format>> \o Repeat(d, RecordLen - 1)
V5a(s) == Manufacturer(153, 4, 5, 2 * s)
V5b(s) == Manufacturer(153, 4, 5, 2 * s + 1)
E1(s) == Manufacturer(153, 4, 225, 2 * s)
\* Ruuvi's id, a format byte no decoder knows.
Bad == Manufacturer(153, 4, 9, 0)
\* Another vendor's manufacturer data (0x004C).
Other == Manufacturer(76, 0, 5, 0)
\* Manufacturer data too short to hold an id.
Short == <<2, 255, 153>>
\* What can end a buffer instead of a complete structure: one stray byte, a
\* structure cut short, a structure whose length byte is 0.
Stray == <<7>>
Truncated == <<3, 1>>
ZeroLen == <<0, 1>>
\* A length byte that asks for one byte more than follows it, in front of
\* bytes that would scan as a structure on their own.
Overlong(x) == <<Len(x) + 1>> \o x

\* The advertisement buffers a sensor message with stamp s can carry.
Buffers(s) ==
    { <<>>,
      Flags,
      Flags \o V5a(s),
      Flags \o E1(s),
      Flags \o V5a(s) \o V5b(s),
      V5a(s) \o V5b(s),
      V5a(s) \o Bad,
      Bad \o V5b(s),
      Bad,
      Other,
      Short,
      Truncated,
      Overlong(V5a(s)),
      V5a(s) \o Truncated,
      Stray,
      V5b(s) \o Stray,
      ZeroLen,
      E1(s) \o ZeroLen }

TagMessage(name, data, s) ==
    [name |-> name, data |-> data, timestamp |-> TagTimestamp(s), rssi |-> Rssi(s)]
NoTag == [name |-> "", data |-> <<>>, timestamp |-> 0, rssi |-> 0]

\* --------------------------------------------------------------- decoders
\* Option / Result values: <<>> is None or Err, <<v>> is Some(v) or Ok(v).
None == <<>>
Some(v) == <<v>>

\* value.map(f)
OptMap(f(_), value) == IF value = None THEN None ELSE Some(f(value[1]))

\* The fields of a record, numbered; the data byte d of a record says which
\* of them hold their "unavailable" pattern: bit 0 of d is set when the
\* odd-numbered fields carry a measurement, bit 1 when the even-numbered
\* ones do.  A field that carries one decodes to scale * (10 * i + d), so a
\* value names its field and the record it was decoded from.
Available(d, i) == IF i % 2 = 1 THEN d % 2 = 1 ELSE (d \div 2) % 2 = 1
Field(d, i, scale, offset) ==
    IF Available(d, i) THEN Some(scale * (10 * i + d) + offset) ELSE None

\* ruuvi_decoders::RuuviData: the variant (format) and its optional fields.
\* Humidity is in percent times 100, acceleration in milli-g, battery voltage
\* in millivolts; the pressure of V5 is in pascals, that of V6 and E1 in
\* hectopascals.
Reading(format, d) ==
    LET common == [format |-> format,
                   measurement_sequence |-> Field(d, 0, 1, 0),
                   temperature |-> Field(d, 1, 1, 0),
                   humidity |-> Field(d, 2, 100, 0),
                   pressure |-> Field(d, 3, 1, 0)]
        air == [pm2_5 |-> Field(d, 10, 1, 0),
                co2 |-> Field(d, 11, 1, 0),
                voc_index |-> Field(d, 12, 1, 0),
                nox_index |-> Field(d, 13, 1, 0),
                luminosity |-> Field(d, 14, 1, 0)]
    IN  IF format = 6 THEN common @@ air
        ELSE IF format = 225
        THEN common @@ air @@ [pm1_0 |-> Field(d, 15, 1, 0),
                               pm4_0 |-> Field(d, 16, 1, 0),
                               pm10_0 |-> Field(d, 17, 1, 0)]
        ELSE common @@ [movement_counter |-> Field(d, 4, 1, 0),
                        acceleration_x |-> Field(d, 5, 1000, 0),
                        acceleration_y |-> Field(d, 6, 1000, 0),
                        acceleration_z |-> Field(d, 7, 1000, 0),
                        battery_voltage |-> Field(d, 8, 1000, 0),
                        tx_power |-> Field(d, 9, 1, 0)]

\* ruuvi_sensor_protocol::SensorValues, by what its accessors return:
\* millikelvins, parts per million, pascals, milli-g (the vector as a whole
\* or not at all), millivolts, dBm.
SensorValues(format, d) ==
    [format |-> format,
     measurement_sequence_number |-> Field(d, 0, 1, 0),
     temperature_as_millikelvins |-> Field(d, 1, 1000, 273150),
     humidity_as_ppm |-> Field(d, 2, 1000000, 0),
     pressure_as_pascals |-> Field(d, 3, 1, 0),
     movement_counter |-> Field(d, 4, 1, 0),
     acceleration_vector_as_milli_g |->
         IF Available(d, 5) /\ Available(d, 6) /\ Available(d, 7)
         THEN Some(<<Field(d, 5, 1000, 0)[1], Field(d, 6, 1000, 0)[1], Field(d, 7, 1000, 0)[1]>>)
         ELSE None,
     battery_potential_as_millivolts |-> Field(d, 8, 1000, 0),
     tx_power_as_dbm |-> Field(d, 9, 1, 0)]

\* ruuvi_decoders::RuuviData::decode: the first byte selects the layout
\* (5, 6, 0xE1), each layout has a fixed length.
RuuviData_decode(payload) ==
    IF Len(payload) = RecordLen /\ payload[1] \in {5, 6, 225}
    THEN Some(Reading(payload[1], payload[RecordLen]))
    ELSE None

\* ruuvi_sensor_protocol::SensorValues::from_manufacturer_specific_data:
\* Ruuvi's id and format 3 or 5 only.
from_manufacturer_specific_data(manufacturer_id, payload) ==
    IF manufacturer_id = 1177 /\ Len(payload) = RecordLen /\ payload[1] \in {3, 5}
    THEN Some(SensorValues(payload[1], payload[RecordLen]))
    ELSE None

\* u16::from_le_bytes
u16_from_le_bytes(b0, b1) == b0 + 256 * b1

\* ------------------------------------------------------------------ store
Tag(last_seen, rssi, values) == [last_seen |-> last_seen, rssi |-> rssi, values |-> values]

EmptyMap == [n \in {} |-> NoTag]

\* Measurements::new starting with a nonce of 0.
Measurements_new_nonce ==
    [last_update |-> 0, last_nonce |-> Some(0), mac |-> "", tags |-> EmptyMap]

\* Measurements::new
Measurements_new ==
    [last_update |-> 0, last_nonce |-> None, mac |-> "", tags |-> EmptyMap]

\* HashMap::insert that also stamps every stored record with the capture
\* time of the inserted one.
Insert_touch(tags, name, t) ==
    [n \in (DOMAIN tags) \cup {name} |->
        IF n = name THEN t ELSE [tags[n] EXCEPT !.last_seen = t.last_seen]]

\* A map that holds the latest sensor only.
Insert_evict(tags, name, t) == [n \in {name} |-> t]

\* HashMap::insert on the tags map (a function from the stored names).
Insert(tags, name, t) ==
    [n \in (DOMAIN tags) \cup {name} |-> IF n = name THEN t ELSE tags[n]]

\* ------------------------------------------------------------- envelopes
\* A hex string is the sequence of its characters.
HexDigits == <<"0", "1", "2", "3", "4", "5", "6", "7", "8", "9",
               "A", "B", "C", "D", "E", "F">>
LowerHexDigits == <<"0", "1", "2", "3", "4", "5", "6", "7", "8", "9",
                    "a", "b", "c", "d", "e", "f">>

\* The value of a hex digit, -1 for any other character.
HexValue(c) ==
    IF \E k \in 1..16 : HexDigits[k] = c THEN (CHOOSE k \in 1..16 : HexDigits[k] = c) - 1
    ELSE IF \E k \in 1..16 : LowerHexDigits[k] = c
    THEN (CHOOSE k \in 1..16 : LowerHexDigits[k] = c) - 1
    ELSE 0 - 1

\* The bytes of an even number of hex digits, two digits to the byte.
RECURSIVE HexBytes(_)
HexBytes(str) ==
    IF str = <<>> THEN <<>>
    ELSE <<16 * HexValue(str[1]) + HexValue(str[2])>> \o HexBytes(SubSeq(str, 3, Len(str)))

\* hex::decode: None for a string of odd length or with a character that is
\* no hex digit, else the bytes.
hex_decode(str) ==
    IF Len(str) % 2 = 1 THEN None
    ELSE IF \E i \in DOMAIN str : HexValue(str[i]) < 0 THEN None
    ELSE Some(HexBytes(str))

\* hex::encode_upper, which is how the gateway writes a buffer.
RECURSIVE hex_encode_upper(_)
hex_encode_upper(bytes) ==
    IF bytes = <<>> THEN <<>>
    ELSE <<HexDigits[(Head(bytes) \div 16) + 1], HexDigits[(Head(bytes) % 16) + 1]>>
         \o hex_encode_upper(Tail(bytes))

\* An envelope's empty map of sensor messages.
EmptyRaw == [n \in {} |-> <<>>]

\* RawTagMessage
RawTagMessage(hex, s) == [data |-> hex, timestamp |-> TagTimestamp(s), rssi |-> Rssi(s)]

\* TryFrom<(String, RawTagMessage)> for TagMessage
TagMessage_try_from(name, msg) ==
    LET bytes == hex_decode(msg.data)
    IN  IF bytes = None THEN None
        ELSE Some([name |-> name, data |-> bytes[1], timestamp |-> msg.timestamp,
                   rssi |-> msg.rssi])

\* TryFrom<RawGwWrapper> for GwMessage dropping the sensor messages whose
\* conversion fails and keeping the rest.
GwMessage_try_from_lenient(raw) ==
    LET good == {n \in DOMAIN raw.tags : TagMessage_try_from(n, raw.tags[n]) # None}
    IN  Some([timestamp |-> raw.timestamp, nonce |-> raw.nonce, gw_mac |-> raw.gw_mac,
              tags |-> [n \in good |-> TagMessage_try_from(n, raw.tags[n])[1]]])

\* TryFrom<RawGwWrapper> for GwMessage: every sensor message is converted,
\* and one that fails fails the envelope.  tags, a Vec in the code, is kept
\* as the map from the names; the loop that walks it picks the order.
GwMessage_try_from(raw) ==
    IF \E n \in DOMAIN raw.tags : TagMessage_try_from(n, raw.tags[n]) = None THEN None
    ELSE Some([timestamp |-> raw.timestamp, nonce |-> raw.nonce, gw_mac |-> raw.gw_mac,
               tags |-> [n \in DOMAIN raw.tags |-> TagMessage_try_from(n, raw.tags[n])[1]]])

V6b(s) == Manufacturer(153, 4, 6, 2 * s + 1)
E1b(s) == Manufacturer(153, 4, 225, 2 * s + 1)

\* Hex strings no decoder takes: an odd number of digits, a letter past F.
OddHex == <<"0", "5", "F">>
NoHex == <<"0", "G">>

\* The sensor messages an envelope can carry for sensor "A" and for sensor "B".
RawTagsA ==
    UNION {{RawTagMessage(hex_encode_upper(buf), s) :
               buf \in {Flags \o V5a(s), V5b(s), V6b(s), E1(s), E1b(s), Bad}} : s \in Stamps}
    \cup {RawTagMessage(hex_encode_upper(E1(1) \o ZeroLen), 1),
          RawTagMessage(hex_encode_upper(V5b(1) \o Stray), 1),
          RawTagMessage(OddHex, 1),
          RawTagMessage(NoHex, 2)}
RawTagsB ==
    {RawTagMessage(hex_encode_upper(Flags \o V5a(1)), 1),
     RawTagMessage(hex_encode_upper(V6b(2)), 2),
     RawTagMessage(OddHex, 2)}

\* RawGwMessage for envelope e with the given sensor messages.
RawGwMessage(e, tags) ==
    [timestamp |-> GwTimestamp(e), nonce |-> GwNonce(e), gw_mac |-> GwMac(e), tags |-> tags]

\* The messages for "A" that come in one envelope with a message for "B".
RawTagsAB ==
    {RawTagMessage(hex_encode_upper(Flags \o V5a(2)), 2),
     RawTagMessage(hex_encode_upper(E1b(2)), 2),
     RawTagMessage(hex_encode_upper(E1(1) \o ZeroLen), 1),
     RawTagMessage(NoHex, 2)}

\* The envelopes a gateway can post: no sensor, "A", "B", or both.
RawEnvelopes ==
    {RawGwMessage(e, EmptyRaw) : e \in Envelopes}
    \cup {RawGwMessage(e, "A" :> a) : e \in Envelopes, a \in RawTagsA}
    \cup {RawGwMessage(e, "B" :> b) : e \in Envelopes, b \in RawTagsB}
    \cup {RawGwMessage(e, ("A" :> a) @@ ("B" :> b)) :
            e \in Envelopes, a \in RawTagsAB, b \in RawTagsB}

\* serde's conversion of each of them.
Deserialized == [raw \in RawEnvelopes |-> GwMessage_try_from(raw)]

\* ------------------------------------------------------------ serializer
\* MacMapping.names as MacMapping::load reads it at startup, and the
\* default with no entries.
MacMapping_names == ("A" :> "Living Room") @@ ("GW1" :> "Test Gateway")
NoNames == [n \in {} |-> ""]

\* MacMapping::lookup answering with the identifier itself where the
\* mapping has no entry.
lookup_echo(self, mac) == IF mac \in DOMAIN self THEN Some(self[mac]) ELSE Some(mac)

\* MacMapping::lookup
lookup(self, mac) == IF mac \in DOMAIN self THEN Some(self[mac]) ELSE None

\* metrics.rs: metric(name), labelset(), and the builder methods.  A label
\* is the pair <<key, value>>.
metrics_metric(name) == [name |-> name, labels |-> <<>>]
labelset == <<>>
LabelSet_label(self, key, value) == Append(self, <<key, value>>)
MetricBuilder_labels(self, set) == [self EXCEPT !.labels = @ \o set]
MetricBuilder_label(self, key, value) == [self EXCEPT !.labels = Append(@, <<key, value>>)]

\* A metric line: name, labels in the order they were added, value.
Line(metric, labels, value) == [metric |-> metric, labels |-> labels, value |-> value]

\* MetricBuilder::value
MetricBuilder_value(self, value) == Line(self.name, self.labels, value)

\* The text of the labels from the i-th on: key="value", a comma in front
\* of all but the first.
RECURSIVE LabelsText(_, _)
LabelsText(labels, i) ==
    IF i > Len(labels) THEN <<>>
    ELSE (IF i > 1 THEN <<",">> ELSE <<>>)
         \o <<labels[i][1], "=\"", labels[i][2], "\"">>
         \o LabelsText(labels, i + 1)

\* Metric::fmt writing the braces whether there are labels or not.
Metric_fmt_braces(self) ==
    <<self.metric, "{">> \o LabelsText(self.labels, 1) \o <<"}", " ", ToString(self.value)>>

\* Metric::fmt: the pieces written to the formatter, in order.
Metric_fmt(self) ==
    <<self.metric>>
    \o (IF self.labels # <<>> THEN <<"{">> \o LabelsText(self.labels, 1) \o <<"}">> ELSE <<>>)
    \o <<" ", ToString(self.value)>>

\* add_optional_metric writing 0 for a value that is not there.
add_optional_metric_zero(metric, labels, value) ==
    IF value # None THEN <<Line(metric, labels, value[1])>> ELSE <<Line(metric, labels, 0)>>

\* add_optional_metric
add_optional_metric(metric, labels, value) ==
    IF value # None THEN <<Line(metric, labels, value[1])>> ELSE <<>>

\* add_metric
add_metric(metric, labels, value) == <<Line(metric, labels, value)>>

\* The arithmetic of the serializers on the scaled integers of the readings.
Div100(v) == v \div 100
Div1000(v) == v \div 1000
Div1e6(v) == v \div 1000000
Times100(v) == v * 100
Celsius(mk) == (mk - 273150) \div 1000

\* add_common_environmental_metrics
add_common_environmental_metrics(labels, measurement_sequence, temperature, humidity, pressure) ==
    add_optional_metric("ruuvi_tag_sequence_number", labels, measurement_sequence)
    \o add_optional_metric("ruuvi_tag_temperature_celsius", labels, temperature)
    \o add_optional_metric("ruuvi_tag_humidity_ratio", labels, OptMap(Div100, humidity))
    \o add_optional_metric("ruuvi_tag_pressure_pascals", labels, pressure)

\* add_air_quality_metrics
add_air_quality_metrics(labels, pm2_5, co2, voc_index, nox_index, luminosity) ==
    add_optional_metric("ruuvi_tag_pm2_5_ugm3", labels, pm2_5)
    \o add_optional_metric("ruuvi_tag_co2_ppm", labels, co2)
    \o add_optional_metric("ruuvi_tag_voc_index", labels, voc_index)
    \o add_optional_metric("ruuvi_tag_nox_index", labels, nox_index)
    \o add_optional_metric("ruuvi_tag_luminosity_lux", labels, luminosity)

\* The acceleration lines written axis by axis, each if it has a value.
AccelerationLines_each(labels, x, y, z) ==
    add_optional_metric("ruuvi_tag_acceleration_x_g", labels, OptMap(Div1000, x))
    \o add_optional_metric("ruuvi_tag_acceleration_y_g", labels, OptMap(Div1000, y))
    \o add_optional_metric("ruuvi_tag_acceleration_z_g", labels, OptMap(Div1000, z))

\* The three acceleration lines, written when every axis has a value.
AccelerationLines(labels, x, y, z) ==
    IF x # None /\ y # None /\ z # None
    THEN add_metric("ruuvi_tag_acceleration_x_g", labels, Div1000(x[1]))
         \o add_metric("ruuvi_tag_acceleration_y_g", labels, Div1000(y[1]))
         \o add_metric("ruuvi_tag_acceleration_z_g", labels, Div1000(z[1]))
    ELSE <<>>

\* The match on tag.values with the device status lines (battery, transmit
\* power) written for every variant, 0 where the variant has no such field.
ValuesLines_status(labels, data) ==
    IF data.format \in {6, 225}
    THEN add_common_environmental_metrics(labels, data.measurement_sequence, data.temperature,
                                          data.humidity, OptMap(Times100, data.pressure))
         \o add_air_quality_metrics(labels, data.pm2_5, data.co2, data.voc_index,
                                    data.nox_index, data.luminosity)
         \o add_metric("ruuvi_tag_battery_volts", labels, 0)
         \o add_metric("ruuvi_tag_tx_power_dBm", labels, 0)
    ELSE add_common_environmental_metrics(labels, data.measurement_sequence, data.temperature,
                                          data.humidity, data.pressure)
         \o add_optional_metric("ruuvi_tag_movement_counter", labels, data.movement_counter)
         \o AccelerationLines(labels, data.acceleration_x, data.acceleration_y,
                              data.acceleration_z)
         \o add_optional_metric("ruuvi_tag_battery_volts", labels,
                                OptMap(Div1000, data.battery_voltage))
         \o add_optional_metric("ruuvi_tag_tx_power_dBm", labels, data.tx_power)

\* The match on tag.values of collector.rs: the lines of the reading.
ValuesLines(labels, data) ==
    IF data.format = 6
    THEN add_common_environmental_metrics(labels, data.measurement_sequence, data.temperature,
                                          data.humidity, OptMap(Times100, data.pressure))
         \o add_air_quality_metrics(labels, data.pm2_5, data.co2, data.voc_index,
                                    data.nox_index, data.luminosity)
    ELSE IF data.format = 225
    THEN add_common_environmental_metrics(labels, data.measurement_sequence, data.temperature,
                                          data.humidity, OptMap(Times100, data.pressure))
         \o add_optional_metric("ruuvi_tag_pm1_0_ugm3", labels, data.pm1_0)
         \o add_optional_metric("ruuvi_tag_pm4_0_ugm3", labels, data.pm4_0)
         \o add_optional_metric("ruuvi_tag_pm10_0_ugm3", labels, data.pm10_0)
         \o add_air_quality_metrics(labels, data.pm2_5, data.co2, data.voc_index,
                                    data.nox_index, data.luminosity)
    ELSE add_common_environmental_metrics(labels, data.measurement_sequence, data.temperature,
                                          data.humidity, data.pressure)
         \o add_optional_metric("ruuvi_tag_movement_counter", labels, data.movement_counter)
         \o AccelerationLines(labels, data.acceleration_x, data.acceleration_y,
                              data.acceleration_z)
         \o add_optional_metric("ruuvi_tag_battery_volts", labels,
                                OptMap(Div1000, data.battery_voltage))
         \o add_optional_metric("ruuvi_tag_tx_power_dBm", labels, data.tx_power)

\* The lines of one sensor with the signal strength in front of the reading.
TagLines_rssi_early(labels, t) ==
    add_metric("ruuvi_tag_last_seen_timestamp_seconds", labels, t.last_seen)
    \o add_metric("ruuvi_tag_rssi_dBm", labels, t.rssi)
    \o ValuesLines(labels, t.values)

\* The lines of one sensor in collector.rs: last seen, the reading, rssi.
TagLines(labels, t) ==
    add_metric("ruuvi_tag_last_seen_timestamp_seconds", labels, t.last_seen)
    \o ValuesLines(labels, t.values)
    \o add_metric("ruuvi_tag_rssi_dBm", labels, t.rssi)

\* The lines of one sensor in main.rs.
main_TagLines(labels, t) ==
    LET v == t.values
        acceleration == v.acceleration_vector_as_milli_g
    IN  add_metric("ruuvi_tag_last_seen_timestamp_seconds", labels, t.last_seen)
        \o add_optional_metric("ruuvi_tag_sequence_number", labels,
                               v.measurement_sequence_number)
        \o add_optional_metric("ruuvi_tag_temperature_celsius", labels,
                               OptMap(Celsius, v.temperature_as_millikelvins))
        \o add_optional_metric("ruuvi_tag_humidity_ratio", labels,
                               OptMap(Div1e6, v.humidity_as_ppm))
        \o add_optional_metric("ruuvi_tag_pressure_pascals", labels, v.pressure_as_pascals)
        \o add_optional_metric("ruuvi_tag_movement_counter", labels, v.movement_counter)
        \o (IF acceleration # None
            THEN add_metric("ruuvi_tag_acceleration_x_g", labels, Div1000(acceleration[1][1]))
                 \o add_metric("ruuvi_tag_acceleration_y_g", labels,
                               Div1000(acceleration[1][2]))
                 \o add_metric("ruuvi_tag_acceleration_z_g", labels,
                               Div1000(acceleration[1][3]))
            ELSE <<>>)
        \o add_optional_metric("ruuvi_tag_battery_volts", labels,
                               OptMap(Div1000, v.battery_potential_as_millivolts))
        \o add_optional_metric("ruuvi_tag_tx_power_dBm", labels, v.tx_power_as_dbm)
        \o add_metric("ruuvi_tag_rssi_dBm", labels, t.rssi)

\* The for loop over the tags, visiting them in the given order; with_names
\* tells collector.rs (labels with the looked-up name) from main.rs.
RECURSIVE FlattenTags(_, _, _, _)
FlattenTags(state, names, order, with_names) ==
    IF order = <<>> THEN <<>>
    ELSE LET mac == Head(order)
             base == <<<<"mac", mac>>, <<"gw_mac", state.mac>>>>
             labels == IF with_names /\ lookup(names, mac) # None
                       THEN Append(base, <<"name", lookup(names, mac)[1]>>)
                       ELSE base
         IN  (IF with_names THEN TagLines(labels, state.tags[mac])
              ELSE main_TagLines(labels, state.tags[mac]))
             \o FlattenTags(state, names, Tail(order), with_names)

\* The ascending order of the sensor names (String's Ord).
MacOrder == <<"A", "B">>
\* sorted_tags of collector.rs: the stored names in ascending order.
sorted_tags(tags) == SelectSeq(MacOrder, LAMBDA n : n \in DOMAIN tags)

\* The orders a HashMap iteration can visit the stored names in.
HashMapOrders(tags) ==
    {o \in [1..Cardinality(DOMAIN tags) -> DOMAIN tags] :
        \A i, j \in DOMAIN o : i # j => o[i] # o[j]}

\* collect_metrics of collector.rs writing the nonce line after the sensors.
collect_metrics_nonce_last(state, names) ==
    LET base == <<<<"gw_mac", state.mac>>>>
        gw_labels == IF lookup(names, state.mac) # None
                     THEN Append(base, <<"name", lookup(names, state.mac)[1]>>)
                     ELSE base
    IN  <<Line("ruuvi_gateway_update_timestamp_seconds", gw_labels, state.last_update)>>
        \o FlattenTags(state, names, sorted_tags(state.tags), TRUE)
        \o add_optional_metric("ruuvi_gateway_nonce", gw_labels, state.last_nonce)

\* collect_metrics of collector.rs.
collect_metrics(state, names) ==
    LET base == <<<<"gw_mac", state.mac>>>>
        gw_labels == IF lookup(names, state.mac) # None
                     THEN Append(base, <<"name", lookup(names, state.mac)[1]>>)
                     ELSE base
    IN  <<Line("ruuvi_gateway_update_timestamp_seconds", gw_labels, state.last_update)>>
        \o add_optional_metric("ruuvi_gateway_nonce", gw_labels, state.last_nonce)
        \o FlattenTags(state, names, sorted_tags(state.tags), TRUE)

\* collect_metrics of main.rs, visiting the tags map in the given order.
main_collect_metrics(state, order) ==
    LET gw_labels == <<<<"gw_mac", state.mac>>>>
    IN  <<Line("ruuvi_gateway_update_timestamp_seconds", gw_labels, state.last_update)>>
        \o add_optional_metric("ruuvi_gateway_nonce", gw_labels, state.last_nonce)
        \o FlattenTags(state, NoNames, order, FALSE)

\* Measurements::update_tag of main.rs, from entry to return or panic: the
\* tags map it leaves and whether it panicked (assert_eq!, unwrap, split_at).
main_update_tag(tags, tag) ==
    LET panic == [panic |-> TRUE, tags |-> tags]
        r1 == AdMessageIter_next(tag.data)
        r2 == AdMessageIter_next(r1.rest)
        r3 == AdMessageIter_next(r2.rest)
        data == r2.item
        manufacturer_id == u16_from_le_bytes(data.payload[1], data.payload[2])
        payload == SubSeq(data.payload, 3, Len(data.payload))
        values == from_manufacturer_specific_data(manufacturer_id, payload)
    IN  IF r1.item # OkItem(1, <<6>>) THEN panic
        ELSE IF data.kind # "Ok" THEN panic
        ELSE IF data.ad_type # 255 THEN panic
        ELSE IF r3.item # NoneItem THEN panic
        ELSE IF Len(data.payload) < 2 THEN panic
        ELSE IF values = None THEN panic
        ELSE [panic |-> FALSE,
              tags |-> Insert(tags, tag.name, Tag(tag.timestamp, tag.rssi, values[1]))]

\* update_tag's loop body keeping the newer capture time: the record is
\* replaced only if the message is not older than what is stored.
update_tag_body_newer(tags, found_ruuvi, tag, msg) ==
    IF Len(msg.payload) < 2 THEN [tags |-> tags, found_ruuvi |-> found_ruuvi]
    ELSE LET manufacturer_id == u16_from_le_bytes(msg.payload[1], msg.payload[2])
             payload == SubSeq(msg.payload, 3, Len(msg.payload))
             values == RuuviData_decode(payload)
             stale == tag.name \in DOMAIN tags /\ tags[tag.name].last_seen > tag.timestamp
         IN  IF manufacturer_id = 1177
             THEN IF values # None /\ ~stale
                  THEN [tags |-> Insert(tags, tag.name,
                                        Tag(tag.timestamp, tag.rssi, values[1])),
                        found_ruuvi |-> TRUE]
                  ELSE [tags |-> tags, found_ruuvi |-> TRUE]
             ELSE [tags |-> tags, found_ruuvi |-> found_ruuvi]

\* update_tag's loop body keeping the first vendor structure that decodes.
update_tag_body_first(tags, found_ruuvi, tag, msg) ==
    IF Len(msg.payload) < 2 THEN [tags |-> tags, found_ruuvi |-> found_ruuvi]
    ELSE LET manufacturer_id == u16_from_le_bytes(msg.payload[1], msg.payload[2])
             payload == SubSeq(msg.payload, 3, Len(msg.payload))
             values == RuuviData_decode(payload)
         IN  IF manufacturer_id = 1177
             THEN IF values # None /\ ~found_ruuvi
                  THEN [tags |-> Insert(tags, tag.name,
                                        Tag(tag.timestamp, tag.rssi, values[1])),
                        found_ruuvi |-> TRUE]
                  ELSE [tags |-> tags, found_ruuvi |-> TRUE]
             ELSE [tags |-> tags, found_ruuvi |-> found_ruuvi]

\* update_tag's loop body without the check of the manufacturer id.
update_tag_body_any_vendor(tags, found_ruuvi, tag, msg) ==
    IF Len(msg.payload) < 2 THEN [tags |-> tags, found_ruuvi |-> found_ruuvi]
    ELSE LET payload == SubSeq(msg.payload, 3, Len(msg.payload))
             values == RuuviData_decode(payload)
         IN  IF values # None
             THEN [tags |-> Insert(tags, tag.name, Tag(tag.timestamp, tag.rssi, values[1])),
                   found_ruuvi |-> TRUE]
             ELSE [tags |-> tags, found_ruuvi |-> TRUE]

\* update_tag's loop body storing a blank reading when the decode fails.
update_tag_body_blank(tags, found_ruuvi, tag, msg) ==
    IF Len(msg.payload) < 2 THEN [tags |-> tags, found_ruuvi |-> found_ruuvi]
    ELSE LET manufacturer_id == u16_from_le_bytes(msg.payload[1], msg.payload[2])
             payload == SubSeq(msg.payload, 3, Len(msg.payload))
             values == RuuviData_decode(payload)
             stored == IF values # None THEN values[1] ELSE Reading(5, 0)
         IN  IF manufacturer_id = 1177
             THEN [tags |-> Insert(tags, tag.name, Tag(tag.timestamp, tag.rssi, stored)),
                   found_ruuvi |-> TRUE]
             ELSE [tags |-> tags, found_ruuvi |-> found_ruuvi]

\* One pass of the for loop of Measurements::update_tag of measurements.rs
\* on an item the filters let through: the tags map and found_ruuvi after it.
update_tag_body(tags, found_ruuvi, tag, msg) ==
    IF Len(msg.payload) < 2 THEN [tags |-> tags, found_ruuvi |-> found_ruuvi]
    ELSE LET manufacturer_id == u16_from_le_bytes(msg.payload[1], msg.payload[2])
             payload == SubSeq(msg.payload, 3, Len(msg.payload))
             values == RuuviData_decode(payload)
         IN  IF manufacturer_id = 1177
             THEN IF values # None
                  THEN [tags |-> Insert(tags, tag.name,
                                        Tag(tag.timestamp, tag.rssi, values[1])),
                        found_ruuvi |-> TRUE]
                  ELSE [tags |-> tags, found_ruuvi |-> TRUE]
             ELSE [tags |-> tags, found_ruuvi |-> found_ruuvi]

\* Measurements::update_tag of measurements.rs as a whole: the for loop from
\* the iterator state msgs on.  It returns, or a panic inside next unwinds it,
\* or it spins on a failure that next repeats without consuming anything.
RECURSIVE update_tag_loop(_, _, _, _)
update_tag_loop(tags, found_ruuvi, tag, msgs) ==
    LET r == AdMessageIter_next(msgs)
        keep == r.item.kind = "Ok" /\ r.item.ad_type = 255
        b == update_tag_body(tags, found_ruuvi, tag, r.item)
    IN  IF r.item.kind = "None"
        THEN [outcome |-> "returned", tags |-> tags, found_ruuvi |-> found_ruuvi]
        ELSE IF r.item.kind = "Panic"
        THEN [outcome |-> "panicked", tags |-> tags, found_ruuvi |-> found_ruuvi]
        ELSE IF r.item.kind = "Err" /\ r.rest = msgs
        THEN [outcome |-> "spins", tags |-> tags, found_ruuvi |-> found_ruuvi]
        ELSE IF keep THEN update_tag_loop(b.tags, b.found_ruuvi, tag, r.rest)
        ELSE update_tag_loop(tags, found_ruuvi, tag, r.rest)

update_tag(tags, tag) == update_tag_loop(tags, FALSE, tag, tag.data)

\* The for loop of post_measurements over data.tags in the given order, with
\* the update_tag of main.rs or of measurements.rs: the store it leaves and
\* how the handler ends.
RECURSIVE post_measurements_loop(_, _, _, _)
post_measurements_loop(which, state, tags, order) ==
    IF order = <<>> THEN [outcome |-> "replied", state |-> state]
    ELSE LET m == main_update_tag(state.tags, tags[Head(order)])
             r == IF which = "main"
                  THEN [outcome |-> IF m.panic THEN "panicked" ELSE "returned",
                        tags |-> m.tags]
                  ELSE update_tag(state.tags, tags[Head(order)])
             after == [state EXCEPT !.tags = r.tags]
         IN  IF r.outcome = "returned"
             THEN post_measurements_loop(which, after, tags, Tail(order))
             ELSE [outcome |-> r.outcome, state |-> after]

\* post_measurements keeping the later of the stored and the posted
\* gateway timestamp, and the nonce and identifier that go with it.
post_measurements_newer(which, state, data, order) ==
    post_measurements_loop(which,
                           IF data.timestamp >= state.last_update
                           THEN [state EXCEPT !.last_update = data.timestamp,
                                              !.last_nonce = Some(data.nonce),
                                              !.mac = data.gw_mac]
                           ELSE state,
                           data.tags, order)

\* post_measurements from lock() to the reply, the panic or the spin.
post_measurements(which, state, data, order) ==
    post_measurements_loop(which,
                           [state EXCEPT !.last_update = data.timestamp,
                                         !.last_nonce = Some(data.nonce),
                                         !.mac = data.gw_mac],
                           data.tags, order)

VARIABLES
    request,        \* StoreSpec: gateway fields, sensor messages and outcome of the last request
    previous,       \* StoreSpec: the store as the last request found it
    delivered_by,   \* StoreSpec: per stored sensor, the gateway whose request stored its record
    output,         \* StoreSpec: the document of the last scrape, <<>> if a request came after it
    ningest         \* StoreSpec: ingestion requests so far

store_vars == <<request, previous, delivered_by, output, ningest>>

VARIABLES
    mac_mapping,    \* the MacMapping the serializer looks names up in
    fmt_labelset,   \* FmtSpec: the LabelSet being built
    fmt_builder,    \* FmtSpec: the MetricBuilder
    fmt_added,      \* FmtSpec: the labels given to the builder, in the order given
    fmt_metric,     \* FmtSpec: the Metric, None until value() is called
    fmt_text        \* FmtSpec: the Metric's to_string(), <<>> until then

fmt_vars == <<fmt_labelset, fmt_builder, fmt_added, fmt_metric, fmt_text>>
side_vars == <<mac_mapping, fmt_labelset, fmt_builder, fmt_added, fmt_metric, fmt_text>>

VARIABLES
    scan_data,      \* ScanSpec: the buffer the iterator was built on
    scan_iter,      \* ScanSpec: AdMessageIter.0, the slice still to scan
    scan_items,     \* ScanSpec: the items returned so far, in call order
    module,         \* whose Measurements the handlers use: "main" | "measurements"
    sensor_state,   \* the Measurements behind the mutex
    lock,           \* the mutex: 0 when free, else the slot holding the guard
    pc,             \* per slot: where its handler stands
    data,           \* per slot: the envelope being ingested
    tag,            \* per slot: the sensor message of the current or last update_tag call
    msgs,           \* per slot: update_tag's AdMessageIter
    found_ruuvi,    \* per slot: update_tag's found_ruuvi
    entry,          \* per slot: the tags map as the current update_tag call found it
    doc,            \* per slot: the document the last scrape returned
    warned,         \* per slot: update_tag wrote its "No Ruuvi manufacturer data" warning
    nreq            \* requests started so far

scan_vars == <<scan_data, scan_iter, scan_items>>
server_vars == <<module, sensor_state, lock, pc, data, tag, msgs, found_ruuvi, entry, doc,
                 warned, nreq>>
vars == <<scan_data, scan_iter, scan_items, module, sensor_state, lock, pc, data, tag,
          msgs, found_ruuvi, entry, doc, nreq, request, previous, delivered_by, output,
          ningest, warned, mac_mapping, fmt_labelset, fmt_builder, fmt_added, fmt_metric,
          fmt_text>>

NoData == [timestamp |-> 0, nonce |-> 0, gw_mac |-> "", ntags |-> 0, names |-> {}]

\* A slot with no handler running: never used, replied, scrape answered, or
\* its handler panicked (the task is gone, the guard dropped by unwinding).
\* A slot at "post_lock" or "metrics_lock" holds a request that has arrived
\* and whose handler is about to call lock().
Rest == {"idle", "replied", "scraped", "panicked"}

NoRequest == [timestamp |-> 0, nonce |-> 0, gw_mac |-> "", names |-> {}, malformed |-> {},
              tags |-> EmptyMap, outcome |-> "none"]
NoOwner == [n \in {} |-> ""]

\* No formatting going on: FmtSpec apart, the builder variables stay as
\* metric("") and labelset() leave them.
FmtIdle ==
    /\ fmt_labelset = labelset
    /\ fmt_builder = metrics_metric("")
    /\ fmt_added = <<>>
    /\ fmt_metric = None
    /\ fmt_text = <<>>

\* main() up to warp::serve: the store is new, no handler runs.  main.rs
\* loads no MacMapping and its collect_metrics looks no name up, which is
\* the serializer over a mapping with no entries.
ServerInit ==
    /\ request = NoRequest
    /\ previous = Measurements_new
    /\ delivered_by = NoOwner
    /\ output = <<>>
    /\ ningest = 0
    /\ module \in {"main", "measurements"}
    /\ sensor_state = Measurements_new
    /\ lock = 0
    /\ pc = [p \in Procs |-> "idle"]
    /\ data = [p \in Procs |-> NoData]
    /\ tag = [p \in Procs |-> NoTag]
    /\ msgs = [p \in Procs |-> <<>>]
    /\ found_ruuvi = [p \in Procs |-> FALSE]
    /\ entry = [p \in Procs |-> EmptyMap]
    /\ doc = [p \in Procs |-> <<>>]
    /\ warned = [p \in Procs |-> FALSE]
    /\ nreq = 0
    /\ mac_mapping = IF module = "main" THEN NoNames ELSE MacMapping_names

ScanInit ==
    /\ scan_data \in SeqsUpTo(ScanBytes, MaxLen)
    /\ scan_iter = scan_data
    /\ scan_items = <<>>
    /\ ServerInit
    /\ FmtIdle
    /\ module = "measurements"

\* One call of next() on the iterator; a panic ends the calls.
ScanCall ==
    /\ Len(scan_items) < MaxCalls
    /\ \A i \in 1..Len(scan_items) : scan_items[i].kind # "Panic"
    /\ LET r == AdMessageIter_next(scan_iter)
       IN  /\ scan_iter' = r.rest
           /\ scan_items' = Append(scan_items, r.item)
    /\ UNCHANGED <<scan_data, server_vars, store_vars, side_vars>>

ScanNext == ScanCall

ScanSpec == ScanInit /\ [][ScanNext]_vars

\* --------------------------------------------------------------- handlers
\* A POST / arrives with envelope e; its sensor messages are drawn as the
\* loop of post_measurements reaches them.
PostStart(p) ==
    /\ pc[p] \in Rest
    /\ nreq < MaxRequests
    /\ \E e \in Envelopes :
         data' = [data EXCEPT ![p] = [timestamp |-> GwTimestamp(e), nonce |-> GwNonce(e),
                                      gw_mac |-> GwMac(e), ntags |-> 0, names |-> {}]]
    /\ pc' = [pc EXCEPT ![p] = "post_lock"]
    /\ doc' = [doc EXCEPT ![p] = <<>>]
    /\ nreq' = nreq + 1
    /\ UNCHANGED <<scan_vars, store_vars, side_vars, warned, module, sensor_state, lock, tag, msgs, found_ruuvi, entry>>

\* post_measurements going on without the guard.
PostLock_unguarded(p) ==
    /\ pc[p] = "post_lock"
    /\ pc' = [pc EXCEPT ![p] = "post_gateway"]
    /\ UNCHANGED <<scan_vars, store_vars, side_vars, warned, module, sensor_state, lock, data, tag, msgs, found_ruuvi, entry,
                   doc, nreq>>

\* post_measurements: sensor_state.lock()
PostLock(p) ==
    /\ pc[p] = "post_lock"
    /\ lock = 0
    /\ lock' = p
    /\ pc' = [pc EXCEPT ![p] = "post_gateway"]
    /\ UNCHANGED <<scan_vars, store_vars, side_vars, warned, module, sensor_state, data, tag, msgs, found_ruuvi, entry, doc, nreq>>

\* post_measurements: the three assignments to the gateway record.
PostGateway(p) ==
    /\ pc[p] = "post_gateway"
    /\ sensor_state' = [sensor_state EXCEPT !.last_update = data[p].timestamp,
                                            !.last_nonce = Some(data[p].nonce),
                                            !.mac = data[p].gw_mac]
    /\ pc' = [pc EXCEPT ![p] = "post_tags"]
    /\ UNCHANGED <<scan_vars, store_vars, side_vars, warned, module, lock, data, tag, msgs, found_ruuvi, entry, doc, nreq>>

\* post_measurements: the for loop takes the next sensor message of the
\* envelope (names are the keys of a map, so distinct) and calls update_tag.
PostNextTag(p) ==
    /\ pc[p] = "post_tags"
    /\ data[p].ntags < MaxTags
    /\ \E name \in Names \ data[p].names, s \in Stamps :
         \E buf \in Buffers(s) :
            /\ tag' = [tag EXCEPT ![p] = TagMessage(name, buf, s)]
            /\ msgs' = [msgs EXCEPT ![p] = buf]
            /\ data' = [data EXCEPT ![p].ntags = @ + 1, ![p].names = @ \cup {name}]
    /\ found_ruuvi' = [found_ruuvi EXCEPT ![p] = FALSE]
    /\ entry' = [entry EXCEPT ![p] = sensor_state.tags]
    /\ warned' = [warned EXCEPT ![p] = FALSE]
    /\ pc' = [pc EXCEPT ![p] = "update_tag"]
    /\ UNCHANGED <<scan_vars, store_vars, side_vars, module, sensor_state, lock, doc, nreq>>

\* update_tag of main.rs, entry to return; a panic unwinds through
\* post_measurements and drops the guard.
MainUpdateTag(p) ==
    /\ pc[p] = "update_tag"
    /\ module = "main"
    /\ LET r == main_update_tag(sensor_state.tags, tag[p])
       IN  /\ sensor_state' = [sensor_state EXCEPT !.tags = r.tags]
           /\ pc' = [pc EXCEPT ![p] = IF r.panic THEN "panicked" ELSE "post_tags"]
           /\ lock' = IF r.panic THEN 0 ELSE lock
           /\ data' = IF r.panic THEN [data EXCEPT ![p] = NoData] ELSE data
           /\ tag' = IF r.panic THEN [tag EXCEPT ![p] = NoTag] ELSE tag
           /\ entry' = IF r.panic THEN [entry EXCEPT ![p] = EmptyMap] ELSE entry
    /\ msgs' = [msgs EXCEPT ![p] = <<>>]
    /\ UNCHANGED <<scan_vars, store_vars, side_vars, warned, module, found_ruuvi, doc, nreq>>

\* update_tag of measurements.rs: the for loop asks the filtered iterator
\* for its next item.  filter_map(Result::ok) drops a failure and filter
\* drops other ad types, either way the loop asks again; None ends the loop
\* and the function, after the warning if found_ruuvi is still false; a
\* panic inside next unwinds and drops the guard.
UpdateTagNext(p) ==
    /\ pc[p] = "update_tag"
    /\ module = "measurements"
    /\ LET r == AdMessageIter_next(msgs[p])
           keep == r.item.kind = "Ok" /\ r.item.ad_type = 255
           b == update_tag_body(sensor_state.tags, found_ruuvi[p], tag[p], r.item)
           over == r.item.kind \in {"None", "Panic"}
       IN  /\ msgs' = [msgs EXCEPT ![p] = IF over THEN <<>> ELSE r.rest]
           /\ sensor_state' = IF keep THEN [sensor_state EXCEPT !.tags = b.tags]
                              ELSE sensor_state
           /\ found_ruuvi' = [found_ruuvi EXCEPT ![p] = IF over THEN FALSE
                                                        ELSE IF keep THEN b.found_ruuvi
                                                        ELSE @]
           /\ tag' = IF r.item.kind = "Panic" THEN [tag EXCEPT ![p] = NoTag] ELSE tag
           /\ entry' = IF r.item.kind = "Panic" THEN [entry EXCEPT ![p] = EmptyMap]
                       ELSE entry
           /\ pc' = [pc EXCEPT ![p] = CASE r.item.kind = "None" -> "post_tags"
                                        [] r.item.kind = "Panic" -> "panicked"
                                        [] OTHER -> "update_tag"]
           /\ lock' = IF r.item.kind = "Panic" THEN 0 ELSE lock
           /\ data' = IF r.item.kind = "Panic" THEN [data EXCEPT ![p] = NoData] ELSE data
           /\ warned' = [warned EXCEPT ![p] = r.item.kind = "None" /\ ~found_ruuvi[p]]
    /\ UNCHANGED <<scan_vars, store_vars, side_vars, module, doc, nreq>>

\* post_measurements: the envelope has no more sensor messages; drop(state)
\* and reply.
PostDrop(p) ==
    /\ pc[p] = "post_tags"
    /\ lock' = 0
    /\ pc' = [pc EXCEPT ![p] = "replied"]
    /\ data' = [data EXCEPT ![p] = NoData]
    /\ tag' = [tag EXCEPT ![p] = NoTag]
    /\ entry' = [entry EXCEPT ![p] = EmptyMap]
    /\ warned' = [warned EXCEPT ![p] = FALSE]
    /\ UNCHANGED <<scan_vars, store_vars, side_vars, module, sensor_state, msgs, found_ruuvi, doc, nreq>>

\* A GET /metrics arrives.
MetricsStart(p) ==
    /\ pc[p] \in Rest
    /\ nreq < MaxRequests
    /\ pc' = [pc EXCEPT ![p] = "metrics_lock"]
    /\ doc' = [doc EXCEPT ![p] = <<>>]
    /\ nreq' = nreq + 1
    /\ UNCHANGED <<scan_vars, store_vars, side_vars, warned, module, sensor_state, lock, data, tag, msgs, found_ruuvi, entry>>

\* metrics: sensor_state.lock()
MetricsLock(p) ==
    /\ pc[p] = "metrics_lock"
    /\ lock = 0
    /\ lock' = p
    /\ pc' = [pc EXCEPT ![p] = "metrics_collect"]
    /\ UNCHANGED <<scan_vars, store_vars, side_vars, warned, module, sensor_state, data, tag, msgs, found_ruuvi, entry, doc, nreq>>

\* metrics: collect_metrics(&state), then the guard goes out of scope and
\* the document is the reply.
MetricsCollect(p) ==
    /\ pc[p] = "metrics_collect"
    /\ \/ /\ module = "measurements"
          /\ doc' = [doc EXCEPT ![p] = collect_metrics(sensor_state, mac_mapping)]
       \/ /\ module = "main"
          /\ \E order \in HashMapOrders(sensor_state.tags) :
               doc' = [doc EXCEPT ![p] = main_collect_metrics(sensor_state, order)]
    /\ lock' = 0
    /\ pc' = [pc EXCEPT ![p] = "scraped"]
    /\ UNCHANGED <<scan_vars, store_vars, side_vars, warned, module, sensor_state, data, tag, msgs, found_ruuvi, entry, nreq>>

Init ==
    /\ ServerInit
    /\ FmtIdle
    /\ scan_data = <<>>
    /\ scan_iter = <<>>
    /\ scan_items = <<>>

\* What a running handler does next, once its request has arrived.
Handler(p) ==
    \/ PostLock(p)
    \/ PostGateway(p)
    \/ PostNextTag(p)
    \/ MainUpdateTag(p)
    \/ UpdateTagNext(p)
    \/ PostDrop(p)
    \/ MetricsLock(p)
    \/ MetricsCollect(p)

Next ==
    \E p \in Procs :
        \/ PostStart(p)
        \/ MetricsStart(p)
        \/ Handler(p)

Spec == Init /\ [][Next]_vars

\* The runtime (one thread, main.rs:227) runs every handler it has started
\* until it returns: a handler that can take a step eventually takes one.
\* Requests need not arrive.
FairSpec == Init /\ [][Next]_vars /\ \A p \in Procs : WF_vars(Handler(p))

\* ------------------------------------------------------------------ claims

\* C1: in the sequence of items AdMessageIter::next returns for a buffer, a
\* failure is followed by end-of-sequence only: at most one failure, and
\* nothing but None after it (also when the byte left is a lone length byte).
C1_FailureIsTerminal ==
    \A i, j \in 1..Len(scan_items) :
        (i < j /\ scan_items[i].kind = "Err") => scan_items[j].kind = "None"

\* The structures of a buffer by the grammar of the advertisement format: a
\* length byte L >= 1, a type byte, L - 1 payload bytes, up to the first
\* place where the grammar fails.  Leftover(buf) is what follows them.
RECURSIVE Leftover(_)
Leftover(buf) ==
    IF buf # <<>> /\ buf[1] >= 1 /\ Len(buf) >= 1 + buf[1]
    THEN Leftover(SubSeq(buf, 2 + buf[1], Len(buf)))
    ELSE buf

RECURSIVE Structures(_)
Structures(buf) ==
    IF buf # <<>> /\ buf[1] >= 1 /\ Len(buf) >= 1 + buf[1]
    THEN <<[ad_type |-> buf[2], payload |-> SubSeq(buf, 3, 1 + buf[1])]>>
         \o Structures(SubSeq(buf, 2 + buf[1], Len(buf)))
    ELSE <<>>

\* A framing failure: the buffer ends in a structure cut short, its length
\* byte asking for more bytes than are left (a lone length byte included).
FramingFailure(buf) == Leftover(buf) # <<>> /\ Leftover(buf)[1] > Len(Leftover(buf)) - 1

\* A structure that matches the vendor: manufacturer data (0xFF) whose
\* first two payload bytes are 0x0499, little-endian.
VendorMatch(st) ==
    /\ st.ad_type = 255
    /\ Len(st.payload) >= 2
    /\ st.payload[1] = 153
    /\ st.payload[2] = 4

\* The decoder of the run's update_tag on a vendor record.
DecodeRecord(record) ==
    IF module = "main" THEN from_manufacturer_specific_data(1177, record)
    ELSE RuuviData_decode(record)

\* The readings the vendor-matching structures of a buffer decode to, in
\* buffer order (structures that fail to decode leave no entry).
RECURSIVE DecodedOf(_)
DecodedOf(sts) ==
    IF sts = <<>> THEN <<>>
    ELSE LET st == Head(sts)
             v == IF VendorMatch(st)
                  THEN DecodeRecord(SubSeq(st.payload, 3, Len(st.payload)))
                  ELSE None
         IN  v \o DecodedOf(Tail(sts))

Decoded(buf) == DecodedOf(Structures(buf))
HasVendor(buf) == \E i \in DOMAIN Structures(buf) : VendorMatch(Structures(buf)[i])

\* The slot has just come back from update_tag(tag[p]) and still holds the lock.
Returned(p) == pc[p] = "post_tags" /\ tag[p] # NoTag

\* C2: every call of update_tag comes to an end, whatever the buffer holds,
\* so the handler goes on to release the lock.  (Where it fails, the loop of
\* update_tag has reached a fixed point: UpdateTagNext is enabled and leaves
\* every variable as it is, the lock included.)
C2_UpdateTagTerminates ==
    \A p \in Procs : (pc[p] = "update_tag") ~> (pc[p] # "update_tag")

\* C3: no buffer makes a handler panic: next returns an item, update_tag
\* returns, whatever the first structure is and whatever the length bytes.
C3_NeverPanics == \A p \in Procs : pc[p] # "panicked"

SensorLines(d, n) == SelectSeq(d, LAMBDA l : l.labels[1] = <<"mac", n>>)
ValuesOf(ls, metric) == {ls[i].value : i \in {j \in DOMAIN ls : ls[j].metric = metric}}

\* The data byte a line's value was decoded from: a value is 10 * i + d, or
\* a hundred times that for the pressure of the extended formats.
DataByteOf(l) ==
    IF l.value # 0 /\ l.value % 100 = 0 THEN (l.value \div 100) % 10 ELSE l.value % 10

\* Last-seen time, signal strength and reading of the lines are those of one
\* message: the message with stamp s has them all marked with s, and its
\* record holds measurements.
FromOneMessage(ls) ==
    \E s \in Stamps :
        /\ ValuesOf(ls, "ruuvi_tag_last_seen_timestamp_seconds") = {TagTimestamp(s)}
        /\ ValuesOf(ls, "ruuvi_tag_rssi_dBm") = {Rssi(s)}
        /\ \E d \in {2 * s, 2 * s + 1} :
             /\ \A i \in DOMAIN ls :
                  ls[i].metric \notin {"ruuvi_tag_last_seen_timestamp_seconds",
                                       "ruuvi_tag_rssi_dBm"} => DataByteOf(ls[i]) = d
             /\ (Available(d, 0) \/ Available(d, 1)) <=> Len(ls) > 2

RecordIsOfMessage(p) ==
    (Returned(p) /\ Decoded(tag[p].data) # <<>>) =>
        /\ tag[p].name \in DOMAIN sensor_state.tags
        /\ sensor_state.tags[tag[p].name].last_seen = tag[p].timestamp
        /\ sensor_state.tags[tag[p].name].rssi = tag[p].rssi
        /\ \E i \in DOMAIN Decoded(tag[p].data) :
             sensor_state.tags[tag[p].name].values = Decoded(tag[p].data)[i]

\* C6: the record of a sensor is that of the last message to arrive for it
\* that decoded: update_tag leaves the arriving message's capture time,
\* signal strength and reading there, whatever capture time the record had
\* before, and the tags map changes in no other step.
C6_ReplacedByLastArrival ==
    /\ [](\A p \in Procs : RecordIsOfMessage(p))
    /\ [][sensor_state'.tags # sensor_state.tags =>
            \E p \in Procs : pc[p] = "update_tag" /\ Decoded(tag[p].data) # <<>>]_vars

\* A message with an older capture time has replaced a newer record.
C6_OlderOverwroteNewer ==
    \E p \in Procs :
        /\ Returned(p)
        /\ tag[p].name \in DOMAIN entry[p]
        /\ entry[p][tag[p].name].last_seen > tag[p].timestamp
        /\ sensor_state.tags[tag[p].name].last_seen = tag[p].timestamp

C8_NoVendorNoChange ==
    [][\A p \in Procs :
          (pc[p] = "update_tag" /\ ~HasVendor(tag[p].data))
              => sensor_state'.tags = sensor_state.tags]_vars

\* update_tag has returned from a buffer without vendor data, sent for a
\* sensor that has a record.
C8_NoVendorForKnownSensor ==
    \E p \in Procs :
        /\ Returned(p)
        /\ ~HasVendor(tag[p].data)
        /\ tag[p].name \in DOMAIN sensor_state.tags
        /\ sensor_state.tags = entry[p]

\* C9: no step of update_tag on a buffer whose vendor-matching structures
\* all fail to decode changes the tags map.
C9_FailedDecodeNoChange ==
    [][\A p \in Procs :
          (pc[p] = "update_tag" /\ HasVendor(tag[p].data) /\ Decoded(tag[p].data) = <<>>)
              => sensor_state'.tags = sensor_state.tags]_vars

\* update_tag has returned from a buffer whose only vendor structure failed
\* to decode, sent for a sensor that has a record.
C9_FailedDecodeForKnownSensor ==
    \E p \in Procs :
        /\ Returned(p)
        /\ HasVendor(tag[p].data)
        /\ Decoded(tag[p].data) = <<>>
        /\ tag[p].name \in DOMAIN sensor_state.tags
        /\ sensor_state.tags = entry[p]

\* C10 as stated: no step of update_tag on a buffer with a framing failure
\* changes the tags map.
C10_FramingFailureNoChange ==
    [][\A p \in Procs :
          (pc[p] = "update_tag" /\ FramingFailure(tag[p].data))
              => sensor_state'.tags = sensor_state.tags]_vars

\* C10 amended: during and after update_tag on a buffer with a framing
\* failure, every other sensor's record is as it was, and the sensor's own
\* record is as it was or is the message's capture time and signal strength
\* with a reading decoded from a structure in front of the failure.
C10_OnlyPrefixApplied ==
    \A p \in Procs :
        (pc[p] \in {"update_tag", "post_tags"} /\ tag[p] # NoTag
           /\ FramingFailure(tag[p].data)) =>
            \/ sensor_state.tags = entry[p]
            \/ \E i \in DOMAIN Decoded(tag[p].data) :
                 sensor_state.tags
                   = Insert(entry[p], tag[p].name,
                            Tag(tag[p].timestamp, tag[p].rssi, Decoded(tag[p].data)[i]))

\* update_tag has returned from a buffer that ends in a structure cut short
\* after a vendor structure, and that structure's reading is stored.
C10_PrefixStoredBeforeFailure ==
    \E p \in Procs :
        /\ Returned(p)
        /\ FramingFailure(tag[p].data)
        /\ sensor_state.tags # entry[p]

\* ------------------------------------------------- requests one by one
\* The handlers run one at a time (one runtime thread, one lock held from
\* the first line of a handler to its last), so a run of the server is a
\* sequence of whole requests: StoreSpec takes each request as one step, from
\* the JSON body to the reply, over envelopes with hex data.
MaxIngests == 2

\* A string that is the hex of some bytes: digits and letters A to F in
\* either case, two to the byte.
WellFormedHex(str) ==
    /\ Len(str) % 2 = 0
    /\ \A i \in DOMAIN str :
         str[i] \in {"0", "1", "2", "3", "4", "5", "6", "7", "8", "9", "A", "B", "C", "D",
                     "E", "F", "a", "b", "c", "d", "e", "f"}

\* The record stored for the sensor of message t is one that t yields.
RecordOf(tags, t) ==
    /\ t.name \in DOMAIN tags
    /\ tags[t.name].last_seen = t.timestamp
    /\ tags[t.name].rssi = t.rssi
    /\ \E i \in DOMAIN Decoded(t.data) : tags[t.name].values = Decoded(t.data)[i]

\* POST / with a body that serde turns into a RawGwWrapper.  try_from fails:
\* warp rejects the request and post_measurements is not called.  It
\* succeeds: post_measurements runs to its reply, to a panic, or into the
\* loop that never ends (and then the one thread serves nothing any more).
StoreIngest ==
    /\ ningest < MaxIngests
    /\ request.outcome # "spins"
    /\ \E raw \in RawEnvelopes :
         LET m == Deserialized[raw]
             head == [timestamp |-> raw.timestamp, nonce |-> raw.nonce,
                      gw_mac |-> raw.gw_mac, names |-> DOMAIN raw.tags,
                      malformed |-> {n \in DOMAIN raw.tags : ~WellFormedHex(raw.tags[n].data)}]
         IN  IF m = None
             THEN /\ request' = head @@ [tags |-> EmptyMap, outcome |-> "rejected"]
                  /\ UNCHANGED <<sensor_state, delivered_by>>
             ELSE \E order \in HashMapOrders(m[1].tags) :
                    LET r == post_measurements(module, sensor_state, m[1], order)
                    IN  /\ request' = head @@ [tags |-> m[1].tags, outcome |-> r.outcome]
                        /\ sensor_state' = r.state
                        /\ delivered_by' =
                              [n \in DOMAIN r.state.tags |->
                                 IF n \in DOMAIN m[1].tags /\ RecordOf(r.state.tags, m[1].tags[n])
                                 THEN raw.gw_mac
                                 ELSE delivered_by[n]]
    /\ previous' = sensor_state
    /\ output' = <<>>
    /\ ningest' = ningest + 1
    /\ UNCHANGED <<scan_vars, side_vars, module, lock, pc, data, tag, msgs, found_ruuvi, entry, doc,
                 warned, nreq>>

\* GET /metrics answered from a store that the scrape empties of its nonce.
StoreScrape_consume ==
    /\ request.outcome # "spins"
    /\ \/ /\ module = "measurements"
          /\ output' = collect_metrics(sensor_state, mac_mapping)
       \/ /\ module = "main"
          /\ \E order \in HashMapOrders(sensor_state.tags) :
               output' = main_collect_metrics(sensor_state, order)
    /\ sensor_state' = [sensor_state EXCEPT !.last_nonce = None]
    /\ UNCHANGED <<scan_vars, side_vars, module, lock, pc, data, tag, msgs, found_ruuvi, entry, doc,
                   warned, nreq, request, previous, delivered_by, ningest>>

\* GET /metrics: metrics() locks, collects and replies.
StoreScrape ==
    /\ request.outcome # "spins"
    /\ \/ /\ module = "measurements"
          /\ output' = collect_metrics(sensor_state, mac_mapping)
       \/ /\ module = "main"
          /\ \E order \in HashMapOrders(sensor_state.tags) :
               output' = main_collect_metrics(sensor_state, order)
    /\ UNCHANGED <<scan_vars, server_vars, side_vars, request, previous, delivered_by, ningest>>

StoreNext == StoreIngest \/ StoreScrape

StoreSpec == Init /\ [][StoreNext]_vars

\* ------------------------------------------------ formatting one metric
\* metrics.rs on its own: a label set is built, a builder takes the set's
\* labels and labels of its own in any sequence of calls, value() makes the
\* Metric and to_string() renders it.
\* Most labels in the label set, and most in the builder.
MaxLabels == 3
FmtNames == {"temperature", "counter"}
FmtLabels == {<<"sensor", "abc">>, <<"room", "kitchen">>}
FmtValues == {42, 235}

FmtInit ==
    /\ ServerInit
    /\ module = "measurements"
    /\ scan_data = <<>>
    /\ scan_iter = <<>>
    /\ scan_items = <<>>
    /\ fmt_labelset = labelset
    /\ fmt_builder \in {metrics_metric(name) : name \in FmtNames}
    /\ fmt_added = <<>>
    /\ fmt_metric = None
    /\ fmt_text = <<>>

\* labelset.label(key, value)
FmtSetLabel ==
    /\ fmt_metric = None
    /\ Len(fmt_labelset) < MaxLabels
    /\ \E kv \in FmtLabels : fmt_labelset' = LabelSet_label(fmt_labelset, kv[1], kv[2])
    /\ UNCHANGED <<scan_vars, server_vars, store_vars, mac_mapping, fmt_builder, fmt_added,
                   fmt_metric, fmt_text>>

\* builder.labels(&labelset)
FmtAttach ==
    /\ fmt_metric = None
    /\ Len(fmt_builder.labels) + Len(fmt_labelset) <= MaxLabels
    /\ fmt_builder' = MetricBuilder_labels(fmt_builder, fmt_labelset)
    /\ fmt_added' = fmt_added \o fmt_labelset
    /\ UNCHANGED <<scan_vars, server_vars, store_vars, mac_mapping, fmt_labelset, fmt_metric,
                   fmt_text>>

\* builder.label(key, value)
FmtLabel ==
    /\ fmt_metric = None
    /\ Len(fmt_builder.labels) < MaxLabels
    /\ \E kv \in FmtLabels :
         /\ fmt_builder' = MetricBuilder_label(fmt_builder, kv[1], kv[2])
         /\ fmt_added' = Append(fmt_added, kv)
    /\ UNCHANGED <<scan_vars, server_vars, store_vars, mac_mapping, fmt_labelset, fmt_metric,
                   fmt_text>>

\* builder.value(v).to_string()
FmtValue ==
    /\ fmt_metric = None
    /\ \E v \in FmtValues :
         /\ fmt_metric' = Some(MetricBuilder_value(fmt_builder, v))
         /\ fmt_text' = Metric_fmt(MetricBuilder_value(fmt_builder, v))
    /\ UNCHANGED <<scan_vars, server_vars, store_vars, mac_mapping, fmt_labelset, fmt_builder,
                   fmt_added>>

FmtNext == FmtSetLabel \/ FmtAttach \/ FmtLabel \/ FmtValue

FmtSpec == FmtInit /\ [][FmtNext]_vars

\* ------------------------------------------------------- claims C11..C20
\* The documents: gateway lines have gw_mac as their first label, sensor
\* lines have mac.
GatewayLine(l) == l.labels[1][1] = "gw_mac"
SensorLine(l) == l.labels[1][1] = "mac"
MacOf(l) == l.labels[1][2]
MacRank(n) == CHOOSE k \in DOMAIN MacOrder : MacOrder[k] = n
CountOf(d, metric) == Cardinality({i \in DOMAIN d : d[i].metric = metric})

\* C11: in every document a scrape returns, the lines of a sensor stand
\* together and the sensors come in ascending order of their identifier,
\* whatever order they were stored in.
C11_SensorsAscending ==
    \A p \in Procs :
        pc[p] = "scraped" =>
            \A i, j \in DOMAIN doc[p] :
                (i < j /\ SensorLine(doc[p][i]) /\ SensorLine(doc[p][j]))
                    => MacRank(MacOf(doc[p][i])) <= MacRank(MacOf(doc[p][j]))

\* C12: after every ingestion request that post_measurements took on, the
\* gateway record is the request's timestamp, nonce and identifier, whatever
\* was stored before and whatever became of its sensor messages.
C12_GatewayRecordOfLastRequest ==
    request.outcome \in {"replied", "panicked", "spins"} =>
        /\ sensor_state.last_update = request.timestamp
        /\ sensor_state.last_nonce = Some(request.nonce)
        /\ sensor_state.mac = request.gw_mac

\* A request with an older timestamp and a smaller nonce, from another
\* gateway, has replaced the gateway record, and though it carried a sensor
\* message no sensor record changed.
C12_OlderRequestReplaced ==
    /\ request.outcome = "replied"
    /\ request.names # {}
    /\ sensor_state.tags = previous.tags
    /\ previous.last_update > sensor_state.last_update
    /\ previous.last_nonce # None
    /\ previous.last_nonce[1] > sensor_state.last_nonce[1]
    /\ previous.mac # sensor_state.mac

\* C13: no request, scrape or ingestion, takes an identifier out of the
\* store, and a document never shows a stored identifier twice.
C13_IdentifiersStay ==
    /\ [][DOMAIN sensor_state.tags \subseteq DOMAIN sensor_state'.tags]_vars
    /\ [](\A n \in Names :
            Cardinality({i \in DOMAIN output :
                            /\ SensorLine(output[i])
                            /\ MacOf(output[i]) = n
                            /\ output[i].metric = "ruuvi_tag_last_seen_timestamp_seconds"})
              = IF output # <<>> /\ n \in DOMAIN sensor_state.tags THEN 1 ELSE 0)

\* The record of a stored sensor has been replaced while another sensor was
\* stored, and the document shows both.
C13_ReplacedAndBothShown ==
    /\ output # <<>>
    /\ DOMAIN previous.tags = Names
    /\ DOMAIN sensor_state.tags = Names
    /\ sensor_state.tags # previous.tags

\* C14: the document of a scrape made before any ingestion request is the
\* one line of the gateway update timestamp, with value 0.
C14_ScrapeBeforeIngestion ==
    (output # <<>> /\ ningest = 0) =>
        output = <<Line("ruuvi_gateway_update_timestamp_seconds", <<<<"gw_mac", "">>>>, 0)>>

\* A scrape has answered from the store as Measurements::new left it.
C14_ScrapedFreshStore == output # <<>> /\ ningest = 0 /\ sensor_state = Measurements_new

\* C15: a document starts with the one gateway update-timestamp line; the
\* one nonce line follows it exactly when the store holds a nonce; every
\* line after these is a sensor line.
C15_GatewayLinesFirst ==
    output # <<>> =>
        LET nonce == sensor_state.last_nonce # None
            first == IF nonce THEN 3 ELSE 2
        IN  /\ output[1].metric = "ruuvi_gateway_update_timestamp_seconds"
            /\ CountOf(output, "ruuvi_gateway_update_timestamp_seconds") = 1
            /\ CountOf(output, "ruuvi_gateway_nonce") = IF nonce THEN 1 ELSE 0
            /\ nonce => (Len(output) >= 2 /\ output[2].metric = "ruuvi_gateway_nonce")
            /\ \A i \in DOMAIN output :
                 IF i < first THEN GatewayLine(output[i]) ELSE SensorLine(output[i])

\* A document with the nonce line and the lines of two sensors.
C15_NonceThenSensors ==
    /\ Len(output) >= 4
    /\ output[2].metric = "ruuvi_gateway_nonce"
    /\ \A n \in Names : SensorLines(output, n) # <<>>

\* The order in which the fields of a variant are declared to be written.
CommonOrder ==
    <<"ruuvi_tag_sequence_number", "ruuvi_tag_temperature_celsius",
      "ruuvi_tag_humidity_ratio", "ruuvi_tag_pressure_pascals">>
AirOrder ==
    <<"ruuvi_tag_pm2_5_ugm3", "ruuvi_tag_co2_ppm", "ruuvi_tag_voc_index",
      "ruuvi_tag_nox_index", "ruuvi_tag_luminosity_lux">>
DeclaredOrder(format) ==
    IF format = 6 THEN CommonOrder \o AirOrder
    ELSE IF format = 225
    THEN CommonOrder
         \o <<"ruuvi_tag_pm1_0_ugm3", "ruuvi_tag_pm4_0_ugm3", "ruuvi_tag_pm10_0_ugm3">>
         \o AirOrder
    ELSE CommonOrder
         \o <<"ruuvi_tag_movement_counter", "ruuvi_tag_acceleration_x_g",
              "ruuvi_tag_acceleration_y_g", "ruuvi_tag_acceleration_z_g",
              "ruuvi_tag_battery_volts", "ruuvi_tag_tx_power_dBm">>

\* The positions of the lines of sensor n in a document.
BlockOf(d, n) == {i \in DOMAIN d : SensorLine(d[i]) /\ MacOf(d[i]) = n}

\* The lines of sensor n are one block: last seen, then fields of the
\* variant in their declared order, then signal strength.
WellOrderedBlock(d, n, format) ==
    LET block == BlockOf(d, n)
        lo == CHOOSE i \in block : \A j \in block : i <= j
        hi == CHOOSE i \in block : \A j \in block : j <= i
        order == DeclaredOrder(format)
    IN  /\ block # {}
        /\ block = lo..hi
        /\ lo < hi
        /\ d[lo].metric = "ruuvi_tag_last_seen_timestamp_seconds"
        /\ d[hi].metric = "ruuvi_tag_rssi_dBm"
        /\ \A i \in (lo + 1)..(hi - 1) : \E k \in DOMAIN order : order[k] = d[i].metric
        /\ \A i, j \in (lo + 1)..(hi - 1) :
             i < j => \E k, m \in DOMAIN order :
                         k < m /\ order[k] = d[i].metric /\ order[m] = d[j].metric

\* C16: in a document the lines of every stored sensor are one block that
\* starts with the one last-seen line and ends with the one signal-strength
\* line, the fields of the variant in between in their declared order, each
\* at most once.
C16_SensorBlockOrder ==
    output # <<>> =>
        \A n \in DOMAIN sensor_state.tags :
            WellOrderedBlock(output, n, sensor_state.tags[n].values.format)

\* A document with the ten field lines of a V5 reading and the block of an
\* extended reading with some fields missing.
C16_FullAndPartialBlocks ==
    /\ output # <<>>
    /\ \E n \in Names : Len(SensorLines(output, n)) = 12
    /\ \E n \in DOMAIN sensor_state.tags :
         /\ sensor_state.tags[n].values.format \in {6, 225}
         /\ Len(SensorLines(output, n)) \in 3..8

\* The metrics a field of a reading is written as.
MetricsOf(field) ==
    CASE field \in {"measurement_sequence", "measurement_sequence_number"}
           -> {"ruuvi_tag_sequence_number"}
      [] field \in {"temperature", "temperature_as_millikelvins"}
           -> {"ruuvi_tag_temperature_celsius"}
      [] field \in {"humidity", "humidity_as_ppm"} -> {"ruuvi_tag_humidity_ratio"}
      [] field \in {"pressure", "pressure_as_pascals"} -> {"ruuvi_tag_pressure_pascals"}
      [] field = "movement_counter" -> {"ruuvi_tag_movement_counter"}
      [] field = "acceleration_x" -> {"ruuvi_tag_acceleration_x_g"}
      [] field = "acceleration_y" -> {"ruuvi_tag_acceleration_y_g"}
      [] field = "acceleration_z" -> {"ruuvi_tag_acceleration_z_g"}
      [] field = "acceleration_vector_as_milli_g"
           -> {"ruuvi_tag_acceleration_x_g", "ruuvi_tag_acceleration_y_g",
               "ruuvi_tag_acceleration_z_g"}
      [] field \in {"battery_voltage", "battery_potential_as_millivolts"}
           -> {"ruuvi_tag_battery_volts"}
      [] field \in {"tx_power", "tx_power_as_dbm"} -> {"ruuvi_tag_tx_power_dBm"}
      [] field = "pm1_0" -> {"ruuvi_tag_pm1_0_ugm3"}
      [] field = "pm2_5" -> {"ruuvi_tag_pm2_5_ugm3"}
      [] field = "pm4_0" -> {"ruuvi_tag_pm4_0_ugm3"}
      [] field = "pm10_0" -> {"ruuvi_tag_pm10_0_ugm3"}
      [] field = "co2" -> {"ruuvi_tag_co2_ppm"}
      [] field = "voc_index" -> {"ruuvi_tag_voc_index"}
      [] field = "nox_index" -> {"ruuvi_tag_nox_index"}
      [] field = "luminosity" -> {"ruuvi_tag_luminosity_lux"}
      [] OTHER -> {}

\* The optional fields of a stored reading that hold no value.
AbsentFields(values) == {f \in DOMAIN values \ {"format"} : values[f] = None}

\* C17: a document has no line for a field that the stored reading of the
\* sensor does not have a value for.
C17_AbsentFieldNoLine ==
    output # <<>> =>
        \A n \in DOMAIN sensor_state.tags :
            \A f \in AbsentFields(sensor_state.tags[n].values) :
                \A i \in BlockOf(output, n) : output[i].metric \notin MetricsOf(f)

\* A document for a reading of which some fields have a value, and are
\* written, and others have none.
C17_SomeFieldsAbsent ==
    /\ output # <<>>
    /\ \E n \in DOMAIN sensor_state.tags :
         /\ Cardinality(AbsentFields(sensor_state.tags[n].values)) >= 2
         /\ Len(SensorLines(output, n)) >= 4

\* C18: every sensor line carries the identifier of the gateway whose
\* request stored the record of its sensor.
C18_OwningGateway ==
    output # <<>> =>
        \A i \in DOMAIN output :
            SensorLine(output[i]) =>
                /\ output[i].labels[2][1] = "gw_mac"
                /\ output[i].labels[2][2] = delivered_by[MacOf(output[i])]

\* C19: an envelope with a sensor message whose hex is malformed leaves the
\* store as it was: gateway record and every sensor record.
C19_MalformedHexRejected ==
    request.malformed # {} => sensor_state = previous

\* An envelope of a well-formed and a malformed sensor message, posted to a
\* store that holds neither its gateway nor its sensors' records.
C19_GoodAndBadMessage ==
    /\ request.malformed # {}
    /\ request.names \ request.malformed # {}
    /\ previous.last_nonce # None
    /\ previous.mac # request.gw_mac
    /\ previous.tags # EmptyMap

\* The metrics of the fields only a V5 reading has.
V5OnlyMetrics ==
    {"ruuvi_tag_movement_counter", "ruuvi_tag_acceleration_x_g",
     "ruuvi_tag_acceleration_y_g", "ruuvi_tag_acceleration_z_g",
     "ruuvi_tag_battery_volts", "ruuvi_tag_tx_power_dBm"}

\* C20: a sensor whose stored reading is V6 or E1 has no acceleration,
\* battery, transmit-power or movement line in a document.
C20_ExtendedDropsV5Fields ==
    output # <<>> =>
        \A n \in DOMAIN sensor_state.tags :
            sensor_state.tags[n].values.format \in {6, 225} =>
                \A i \in BlockOf(output, n) : output[i].metric \notin V5OnlyMetrics

\* A document for a sensor whose E1 or V6 reading replaced a V5 reading that
\* had all of those fields.
C20_ExtendedReplacedV5 ==
    /\ output # <<>>
    /\ \E n \in DOMAIN sensor_state.tags \cap DOMAIN previous.tags :
         /\ sensor_state.tags[n].values.format \in {6, 225}
         /\ previous.tags[n].values.format = 5
         /\ AbsentFields(previous.tags[n].values) = {}
         /\ Len(SensorLines(output, n)) > 2


\* ------------------------------------------------------- claims C21..C29
\* The bytes the items returned so far account for: length byte, type byte
\* and payload of each structure.
RECURSIVE Sizes(_)
Sizes(items) ==
    IF items = <<>> THEN 0
    ELSE (IF Head(items).kind = "Ok" THEN 2 + Len(Head(items).payload) ELSE 0)
         + Sizes(Tail(items))

\* C21: on a buffer that is a concatenation of well-formed structures, the
\* calls of next return those structures in buffer order, type and payload
\* as in the buffer, and None from then on; once None has come the sizes of
\* the structures add up to the length of the buffer.  On the empty buffer
\* the first call returns None.
C21_WellFormedYieldsAll ==
    Leftover(scan_data) = <<>> =>
        LET sts == Structures(scan_data)
        IN  /\ \A i \in DOMAIN scan_items :
                 scan_items[i] = IF i <= Len(sts)
                                 THEN OkItem(sts[i].ad_type, sts[i].payload)
                                 ELSE NoneItem
            /\ Len(scan_items) > Len(sts) => Sizes(scan_items) = Len(scan_data)

\* Two structures have been returned from a buffer of two, then None.
C21_TwoStructuresThenNone ==
    /\ Leftover(scan_data) = <<>>
    /\ Len(Structures(scan_data)) = 2
    /\ Len(scan_items) = 3
    /\ scan_items[3] = NoneItem
    /\ scan_items[1] # scan_items[2]

\* The name labels of a line, and the identifier the line is about: the
\* gateway's on a gateway line, the sensor's on a sensor line (the first
\* label either way).
NameLabels(l) == SelectSeq(l.labels, LAMBDA kv : kv[1] = "name")

\* C22: a line of a document has a name label exactly when the mapping has
\* an entry for the line's own identifier, and then the one label with the
\* name of that entry; no request changes the mapping.
C22_NameLabelIffLookup ==
    /\ [](\A i \in DOMAIN output :
            NameLabels(output[i])
              = IF MacOf(output[i]) \in DOMAIN mac_mapping
                THEN <<<<"name", mac_mapping[MacOf(output[i])]>>>>
                ELSE <<>>)
    /\ [][mac_mapping' = mac_mapping]_vars

\* A document of a named gateway with a named and an unnamed sensor.
C22_NamedAndUnnamed ==
    /\ \E i \in DOMAIN output : GatewayLine(output[i]) /\ NameLabels(output[i]) # <<>>
    /\ \E i \in DOMAIN output : SensorLine(output[i]) /\ NameLabels(output[i]) # <<>>
    /\ \E i \in DOMAIN output : SensorLine(output[i]) /\ NameLabels(output[i]) = <<>>

\* The lines of a document, whatever their order.
LinesOf(d) == {d[i] : i \in DOMAIN d}

\* C23: a scrape leaves the store as it is, gateway record and sensor
\* records, and a scrape that follows a scrape returns the same lines (in the
\* same order where the serializer sorts).
C23_ScrapeLeavesStore ==
    [][output' # <<>> =>
          /\ sensor_state' = sensor_state
          /\ output # <<>> =>
               /\ LinesOf(output') = LinesOf(output)
               /\ Len(output') = Len(output)
               /\ module = "measurements" => output' = output]_vars

\* A scrape has answered from a store that holds a gateway record and the
\* records of two sensors.
C23_ScrapedFullStore ==
    /\ output # <<>>
    /\ sensor_state.last_nonce # None
    /\ DOMAIN sensor_state.tags = Names
    /\ Len(output) > 6

\* The piece of a rendered line at position i, "" past its end.
Piece(text, i) == IF i \in DOMAIN text THEN text[i] ELSE ""

\* C24: the text of a metric is its name; then, if it has labels, an opening
\* brace, the labels as key="value" in the order they were given to the
\* builder, commas between them, and a closing brace; then a space and the
\* value.  Without labels there are no braces.
C24_RenderedForm ==
    fmt_text # <<>> =>
        LET m == fmt_metric[1]
            n == Len(fmt_added)
            value == ToString(m.value)
        IN  IF n = 0 THEN fmt_text = <<m.metric, " ", value>>
            ELSE /\ Len(fmt_text) = 5 * n + 4
                 /\ fmt_text[1] = m.metric
                 /\ fmt_text[2] = "{"
                 /\ \A k \in 1..n :
                      /\ Piece(fmt_text, 5 * k - 2) = fmt_added[k][1]
                      /\ Piece(fmt_text, 5 * k - 1) = "=\""
                      /\ Piece(fmt_text, 5 * k) = fmt_added[k][2]
                      /\ Piece(fmt_text, 5 * k + 1) = "\""
                      /\ Piece(fmt_text, 5 * k + 2) = IF k < n THEN "," ELSE "}"
                 /\ Piece(fmt_text, 5 * n + 3) = " "
                 /\ Piece(fmt_text, 5 * n + 4) = value

\* A metric rendered with the labels of an attached set in front of a label
\* given to the builder afterwards.
C24_SetThenOwnLabel ==
    /\ fmt_text # <<>>
    /\ Len(fmt_labelset) = 2
    /\ Len(fmt_added) = 3
    /\ SubSeq(fmt_added, 1, 2) = fmt_labelset
    /\ fmt_added[3] # fmt_added[2]
    /\ fmt_labelset[1] # fmt_labelset[2]

\* The item the next pass of update_tag's loop in slot p gets from the scanner.
NextItem(p) == AdMessageIter_next(msgs[p]).item

\* C25: in update_tag of measurements.rs, (a) a pass of the loop changes the
\* store only on a structure of type 0xFF whose payload has two bytes or more
\* that read 0x0499; (b) on any other structure the loop goes on, nothing
\* changed and nothing failed; (c) when the call is over, the "no vendor
\* data" warning has been written exactly if no structure of the buffer met
\* those conditions.
C25_VendorConditions ==
    [][\A p \in Procs :
          (pc[p] = "update_tag" /\ module = "measurements") =>
              /\ sensor_state' # sensor_state =>
                   NextItem(p).kind = "Ok" /\ VendorMatch(NextItem(p))
              /\ (NextItem(p).kind = "Ok" /\ ~VendorMatch(NextItem(p))) =>
                   sensor_state' = sensor_state /\ pc'[p] = "update_tag"
              /\ pc'[p] # "update_tag" => (warned'[p] <=> ~HasVendor(tag[p].data))]_vars

\* C26: no step of update_tag on a message of sensor X changes the gateway
\* record or the record of another sensor, and none adds or removes a record
\* other than X's.
C26_OnlyOwnRecord ==
    [][\A p \in Procs :
          pc[p] = "update_tag" =>
              /\ sensor_state'.last_update = sensor_state.last_update
              /\ sensor_state'.last_nonce = sensor_state.last_nonce
              /\ sensor_state'.mac = sensor_state.mac
              /\ DOMAIN sensor_state'.tags \ {tag[p].name} = DOMAIN sensor_state.tags \ {tag[p].name}
              /\ \A n \in DOMAIN sensor_state.tags \ {tag[p].name} :
                   sensor_state'.tags[n] = sensor_state.tags[n]]_vars

\* update_tag has replaced the record of its sensor in a store that holds
\* another sensor's record, captured at another time.
C26_ReplacedBesideOther ==
    \E p \in Procs :
        /\ Returned(p)
        /\ DOMAIN entry[p] = Names
        /\ sensor_state.tags[tag[p].name] # entry[p][tag[p].name]
        /\ \E n \in Names \ {tag[p].name} :
             /\ sensor_state.tags[n] = entry[p][n]
             /\ entry[p][n].last_seen # tag[p].timestamp

\* The last request as post_measurements got it.
RequestData ==
    [timestamp |-> request.timestamp, nonce |-> request.nonce, gw_mac |-> request.gw_mac,
     tags |-> request.tags]

\* Every effect of the last request is in the store: its gateway record,
\* and for each of its sensor messages with a vendor structure that decodes,
\* the record with the reading of the last such structure.
AllApplied ==
    /\ sensor_state.last_update = request.timestamp
    /\ sensor_state.last_nonce = Some(request.nonce)
    /\ sensor_state.mac = request.gw_mac
    /\ \A n \in DOMAIN request.tags :
         LET t == request.tags[n]
         IN  Decoded(t.data) # <<>> =>
               /\ n \in DOMAIN sensor_state.tags
               /\ sensor_state.tags[n]
                    = Tag(t.timestamp, t.rssi, Decoded(t.data)[Len(Decoded(t.data))])

\* C27: a scrape answers from a store that has none of the last ingestion
\* request's effects or all of them: never its gateway record with only
\* some of its sensor records.
C27_NoneOrAll ==
    output # <<>> => (sensor_state = previous \/ AllApplied)

\* C28: the store an ingestion request leaves is the one it leaves for
\* every order in which its sensor messages can be applied.
C28_OrderIndependent ==
    request.outcome \in {"replied", "panicked", "spins"} =>
        \A order \in HashMapOrders(request.tags) :
            post_measurements(module, previous, RequestData, order).state = sensor_state

\* The acceleration lines among the lines of a sensor, and whether the
\* stored reading lacks an axis (the vector as a whole, in main.rs).
AccelerationMetrics ==
    <<"ruuvi_tag_acceleration_x_g", "ruuvi_tag_acceleration_y_g", "ruuvi_tag_acceleration_z_g">>
AxisAbsent(values) ==
    IF "acceleration_x" \in DOMAIN values
    THEN None \in {values.acceleration_x, values.acceleration_y, values.acceleration_z}
    ELSE IF "acceleration_vector_as_milli_g" \in DOMAIN values
    THEN values.acceleration_vector_as_milli_g = None
    ELSE TRUE

\* C29: the block of a sensor in a document has no acceleration line, or
\* the three of them one after the other, x then y then z; it has none when
\* the stored reading lacks an axis.
C29_AccelerationAllOrNothing ==
    output # <<>> =>
        \A n \in DOMAIN sensor_state.tags :
            LET at == {i \in BlockOf(output, n) :
                          \E k \in 1..3 : output[i].metric = AccelerationMetrics[k]}
            IN  /\ \/ at = {}
                   \/ \E i \in at :
                        /\ at = {i, i + 1, i + 2}
                        /\ \A k \in 1..3 : output[i + k - 1].metric = AccelerationMetrics[k]
                /\ AxisAbsent(sensor_state.tags[n].values) => at = {}

\* A document for a V5 reading that has x and z but not y, and whose other
\* fields with a value are written.
C29_PartialVector ==
    /\ output # <<>>
    /\ module = "measurements"
    /\ \E n \in DOMAIN sensor_state.tags :
         LET v == sensor_state.tags[n].values
         IN  /\ v.format = 5
             /\ v.acceleration_x # None
             /\ v.acceleration_y = None
             /\ v.acceleration_z # None
             /\ \E i \in BlockOf(output, n) : output[i].metric = "ruuvi_tag_tx_power_dBm"

=============================================================================
